---------------------------- MODULE Spec2Model ----------------------------
(***************************************************************************)
(* A model of the forward HTTP proxy: the accept loop (server.py), the     *)
(* per-connection handler (client_handler.py), the request parser          *)
(* (http_parser.py), the filter (filter_engine.py) and the metrics sink    *)
(* (metrics.py).                                                           *)
(*                                                                         *)
(* Bytes and text are sequences of symbols.  A symbol is a one-character   *)
(* string, except Pad, which stands for a run of RecvSize bytes "x" and is *)
(* what lets a client reach the 64 KiB header cap in a bounded run.        *)
(***************************************************************************)
EXTENDS Integers, Sequences, FiniteSets, TLC

(***************************************************************************)
(* Bounds of the model.                                                    *)
(***************************************************************************)
MaxConn == 3          \* connections the clients open (server specification)
MaxUpChunks == 2      \* chunks an upstream sends before it must end
MaxLatency == 1       \* largest latency_ms the clock can yield
MaxAcceptErrors == 1  \* accept() failures the listener meets
MaxRows == 2          \* data rows of a metrics file found at start
MaxWriters == 2       \* connections the clients open (fair specification)

(***************************************************************************)
(* Program constants.                                                      *)
(***************************************************************************)
RecvSize == 4096      \* recv(4096)
HeaderCap == 65536    \* len(buffer) > 65536
DefaultHttpPort == 80
DefaultHttpsPort == 443

Conns == 1 .. MaxConn

(***************************************************************************)
(* Text.                                                                   *)
(***************************************************************************)
Pad == "X*4096"
CR == "\r"
LF == "\n"
SP == " "
CRLF == <<CR, LF>>
CRLFCRLF == <<CR, LF, CR, LF>>

SymLen(c) == IF c = Pad THEN RecvSize ELSE 1

RECURSIVE ByteLen(_)
\* len(bytes): the number of bytes a symbol sequence stands for.
ByteLen(s) == IF s = <<>> THEN 0 ELSE SymLen(Head(s)) + ByteLen(Tail(s))

Digits == <<"0", "1", "2", "3", "4", "5", "6", "7", "8", "9">>
IsDigit(c) == \E i \in 1 .. 10 : Digits[i] = c
DigitVal(c) == (CHOOSE i \in 1 .. 10 : Digits[i] = c) - 1
AllDigits(s) == s # <<>> /\ \A i \in 1 .. Len(s) : IsDigit(s[i])

UpperLetters == <<"A", "B", "C", "D", "E", "G", "H", "L", "N", "O", "P", "S", "T">>
LowerLetters == <<"a", "b", "c", "d", "e", "g", "h", "l", "n", "o", "p", "s", "t">>

\* str.lower() and str.upper(), one character at a time.
LowerChar(c) ==
    IF \E i \in DOMAIN UpperLetters : UpperLetters[i] = c
    THEN LowerLetters[CHOOSE i \in DOMAIN UpperLetters : UpperLetters[i] = c]
    ELSE c
UpperChar(c) ==
    IF \E i \in DOMAIN LowerLetters : LowerLetters[i] = c
    THEN UpperLetters[CHOOSE i \in DOMAIN LowerLetters : LowerLetters[i] = c]
    ELSE c
Lower(s) == [i \in 1 .. Len(s) |-> LowerChar(s[i])]
Upper(s) == [i \in 1 .. Len(s) |-> UpperChar(s[i])]

IsSpace(c) == c \in {SP, "\t", CR, LF}

StartsWith(s, p) == Len(p) <= Len(s) /\ SubSeq(s, 1, Len(p)) = p
EndsWith(s, p) == Len(p) <= Len(s) /\ SubSeq(s, Len(s) - Len(p) + 1, Len(s)) = p

\* The positions where p occurs in s.
Occurrences(s, p) ==
    {i \in 1 .. (Len(s) - Len(p) + 1) : SubSeq(s, i, i + Len(p) - 1) = p}
FirstIn(S) == IF S = {} THEN 0 ELSE CHOOSE i \in S : \A j \in S : i <= j
LastIn(S) == IF S = {} THEN 0 ELSE CHOOSE i \in S : \A j \in S : i >= j
\* s.find(p) + 1 and s.rfind(p) + 1: 0 when p does not occur in s.
Find(s, p) == FirstIn(Occurrences(s, p))
RFind(s, p) == LastIn(Occurrences(s, p))
\* p in s
Contains(s, p) == Occurrences(s, p) # {}

\* The parts of s before and after the n symbols at position i.
CutAt(s, i, n) == <<SubSeq(s, 1, i - 1), SubSeq(s, i + n, Len(s))>>

\* s.partition(sep): <<before, sep found, after>>.
PartitionAt(s, sep, i) ==
    IF i = 0 THEN <<s, <<>>, <<>>>>
    ELSE <<SubSeq(s, 1, i - 1), sep, SubSeq(s, i + Len(sep), Len(s))>>
Partition(s, sep) == PartitionAt(s, sep, Find(s, sep))

\* s.split(sep): the list of the pieces between the occurrences of sep.
RECURSIVE Split(_, _)
SplitAt(s, sep, i) ==
    IF i = 0 THEN <<s>>
    ELSE <<SubSeq(s, 1, i - 1)>> \o Split(SubSeq(s, i + Len(sep), Len(s)), sep)
Split(s, sep) == SplitAt(s, sep, Find(s, sep))

\* s.split(sep, 1) and s.rsplit(sep, 1), for a sep that occurs in s.
SplitOnce(s, sep) == CutAt(s, Find(s, sep), Len(sep))
RSplitOnce(s, sep) == CutAt(s, RFind(s, sep), Len(sep))

RECURSIVE LStrip(_)
LStrip(s) == IF s # <<>> /\ IsSpace(Head(s)) THEN LStrip(Tail(s)) ELSE s
RECURSIVE RStrip(_)
RStrip(s) ==
    IF s # <<>> /\ IsSpace(s[Len(s)]) THEN RStrip(SubSeq(s, 1, Len(s) - 1)) ELSE s
\* s.strip()
Strip(s) == RStrip(LStrip(s))

RECURSIVE DigitsVal(_)
DigitsVal(s) ==
    IF s = <<>> THEN 0
    ELSE 10 * DigitsVal(SubSeq(s, 1, Len(s) - 1)) + DigitVal(s[Len(s)])

\* int(s): surrounding whitespace and one sign are accepted, then digits only.
\* IsInt: int(s) does not raise ValueError.
IntBody(t) == IF t # <<>> /\ Head(t) \in {"-", "+"} THEN Tail(t) ELSE t
SignedVal(t) ==
    IF t # <<>> /\ Head(t) = "-" THEN 0 - DigitsVal(Tail(t)) ELSE DigitsVal(IntBody(t))
IsInt(s) == AllDigits(IntBody(Strip(s)))
IntOf(s) == SignedVal(Strip(s))

\* The characters of a word, written out.
W_https == <<"h", "t", "t", "p", "s">>
W_httpSS == <<"h", "t", "t", "p", ":", "/", "/">>
W_httpsSS == <<"h", "t", "t", "p", "s", ":", "/", "/">>
W_CONNECT == <<"C", "O", "N", "N", "E", "C", "T">>
W_Host == <<"H", "o", "s", "t">>
W_Connection == <<"C", "o", "n", "n", "e", "c", "t", "i", "o", "n">>
W_close == <<"c", "l", "o", "s", "e">>
W_proxy_connection ==
    <<"p", "r", "o", "x", "y", "-", "c", "o", "n", "n", "e", "c", "t", "i", "o", "n">>
W_content_length_colon ==
    <<"c", "o", "n", "t", "e", "n", "t", "-", "l", "e", "n", "g", "t", "h", ":">>

(***************************************************************************)
(* urllib.parse.urlsplit, as far as the proxy uses it: scheme, netloc,     *)
(* path and query, and the hostname and port properties.  Userinfo ("@"),  *)
(* zone ids ("%") and fragments ("#") are outside the alphabet of the      *)
(* requests the model sends.                                               *)
(***************************************************************************)
\* The first position of s that holds one of chars, Len(s) + 1 when none does.
FirstOf(s, chars) ==
    IF \E i \in 1 .. Len(s) : s[i] \in chars
    THEN FirstIn({i \in 1 .. Len(s) : s[i] \in chars})
    ELSE Len(s) + 1

SplitQuery(scheme, netloc, q) ==
    [scheme |-> scheme, netloc |-> netloc, path |-> q[1], query |-> q[3]]
SplitPath(scheme, netloc, rest) == SplitQuery(scheme, netloc, Partition(rest, <<"?">>))
SplitNetlocAt(scheme, after, cut) ==
    SplitPath(scheme, SubSeq(after, 1, cut - 1), SubSeq(after, cut, Len(after)))
SplitNetloc(scheme, rest) ==
    IF StartsWith(rest, <<"/", "/">>)
    THEN SplitNetlocAt(scheme, SubSeq(rest, 3, Len(rest)),
                       FirstOf(SubSeq(rest, 3, Len(rest)), {"/", "?"}))
    ELSE SplitQuery(scheme, <<>>, Partition(rest, <<"?">>))
SplitScheme(url, c) ==
    IF c > 1 /\ \A i \in 1 .. (c - 1) : url[i] \notin {"/", "?", "[", "]"}
    THEN SplitNetloc(Lower(SubSeq(url, 1, c - 1)), SubSeq(url, c + 1, Len(url)))
    ELSE SplitQuery(<<>>, <<>>, Partition(url, <<"?">>))
urlsplit(url) == SplitScheme(url, Find(url, <<":">>))

\* SplitResult._hostinfo: <<hostname, port text>>
BracketedHostinfo(r) == <<r[1], Partition(r[3], <<":">>)[3]>>
PlainHostinfo(r) == <<r[1], r[3]>>
HostinfoOf(netloc, b) ==
    IF b[2] # <<>> THEN BracketedHostinfo(Partition(b[3], <<"]">>))
    ELSE PlainHostinfo(Partition(netloc, <<":">>))
hostinfo(netloc) == HostinfoOf(netloc, Partition(netloc, <<"[">>))

\* SplitResult.port raises ValueError for a port that is not all digits or is
\* above 65535.
PortRaises(p) == p # <<>> /\ (IF AllDigits(p) THEN DigitsVal(p) > 65535 ELSE TRUE)
\* SplitResult.port: the number, 0 standing for None (both are falsy).
PortOf(p) == IF AllDigits(p) THEN DigitsVal(p) ELSE 0

(***************************************************************************)
(* http_parser.py                                                          *)
(***************************************************************************)
\* A dict, in insertion order: a sequence of <<key, value>> with distinct keys.
DictHas(d, k) == \E i \in 1 .. Len(d) : d[i][1] = k
DictGet(d, k, default) ==
    IF DictHas(d, k) THEN d[CHOOSE i \in 1 .. Len(d) : d[i][1] = k][2] ELSE default
DictPut(d, k, v) ==
    IF DictHas(d, k)
    THEN [i \in 1 .. Len(d) |-> IF d[i][1] = k THEN <<k, v>> ELSE d[i]]
    ELSE Append(d, <<k, v>>)

\* key, value = line.split(":", 1); headers[key.strip()] = value.strip()
PutPair(headers, kv) == DictPut(headers, Strip(kv[1]), Strip(kv[2]))
PutHeaderLine(headers, line) ==
    IF Contains(line, <<":">>) THEN PutPair(headers, SplitOnce(line, <<":">>))
    ELSE headers
RECURSIVE ParseHeaderLines(_, _)
\* for line in lines[1:]: if ":" in line: ...
ParseHeaderLines(lines, headers) ==
    IF lines = <<>> THEN headers
    ELSE ParseHeaderLines(Tail(lines), PutHeaderLine(headers, Head(lines)))

ParseFailure == [ok |-> FALSE, method |-> <<>>, url |-> <<>>, version |-> <<>>,
                 headers |-> <<>>, body |-> <<>>]

ParseRequest(request_line, header_lines, body) ==
    IF Len(request_line) # 3 THEN ParseFailure
    ELSE [ok |-> TRUE,
          method |-> request_line[1],
          url |-> request_line[2],
          version |-> request_line[3],
          headers |-> ParseHeaderLines(header_lines, <<>>),
          body |-> body]
ParseLines(lines, body) == ParseRequest(Split(lines[1], <<SP>>), Tail(lines), body)
ParseParts(parts) == ParseLines(Split(parts[1], CRLF), parts[3])
parse_http_request(request_bytes) == ParseParts(Partition(request_bytes, CRLFCRLF))

\* path = f"{path}?{parsed.query}" if parsed.query
WithQuery(path, query) == IF query # <<>> THEN path \o <<"?">> \o query ELSE path
\* parsed.path or "/", then the query
PathOf(parsed) ==
    WithQuery(IF parsed.path # <<>> THEN parsed.path ELSE <<"/">>, parsed.query)

Target(raised, host, port, path) ==
    [raised |-> raised, host |-> host, port |-> port, path |-> path]

\* Lines 28-35: an absolute URL.  raised: parsed.port raised ValueError.
TargetOfHostinfo(parsed, hi) ==
    Target(PortRaises(hi[2]),
           Lower(hi[1]),
           IF PortOf(hi[2]) # 0 THEN PortOf(hi[2])
           ELSE IF parsed.scheme = W_https THEN DefaultHttpsPort
           ELSE DefaultHttpPort,
           PathOf(parsed))
TargetOfUrl(parsed) == TargetOfHostinfo(parsed, hostinfo(parsed.netloc))

\* Lines 37-50: the Host header.
TargetOfHostPort(hp, path) ==
    Target(FALSE, hp[1], IF IsInt(hp[2]) THEN IntOf(hp[2]) ELSE DefaultHttpPort, path)
TargetOfHost(host_header, path) ==
    IF host_header = <<>> THEN Target(FALSE, <<>>, 0, <<>>)
    ELSE IF Contains(host_header, <<":">>)
    THEN TargetOfHostPort(SplitOnce(host_header, <<":">>), path)
    ELSE Target(FALSE, host_header, DefaultHttpPort, path)

parse_target_from_request(url, headers) ==
    IF StartsWith(url, W_httpSS) \/ StartsWith(url, W_httpsSS)
    THEN TargetOfUrl(urlsplit(url))
    ELSE TargetOfHost(DictGet(headers, W_Host, <<>>), IF url # <<>> THEN url ELSE <<"/">>)

RECURSIVE DropProxyConnection(_)
\* {key: value for key, value in headers.items() if key.lower() not in {...}}
DropProxyConnection(headers) ==
    IF headers = <<>> THEN <<>>
    ELSE IF Lower(Head(headers)[1]) = W_proxy_connection
    THEN DropProxyConnection(Tail(headers))
    ELSE <<Head(headers)>> \o DropProxyConnection(Tail(headers))

RECURSIVE HeaderLines(_)
\* "".join(f"{key}: {value}\r\n" for key, value in forward_headers.items())
HeaderLines(headers) ==
    IF headers = <<>> THEN <<>>
    ELSE Head(headers)[1] \o <<":", SP>> \o Head(headers)[2] \o CRLF
         \o HeaderLines(Tail(headers))

build_forward_request(method, path, version, headers, body) ==
    method \o <<SP>> \o path \o <<SP>> \o version \o CRLF
    \o HeaderLines(DictPut(DropProxyConnection(headers), W_Connection, W_close))
    \o CRLF \o body

(***************************************************************************)
(* filter_engine.py                                                        *)
(***************************************************************************)
\* The blocklist file of the deployment the model runs: one entry, bad.co
blocked_domains == << <<"b", "a", "d", ".", "c", "o">> >>
blocked_keywords ==
    << <<"a", "d", "u", "l", "t">>,
       <<"m", "a", "l", "w", "a", "r", "e">>,
       <<"p", "h", "i", "s", "h", "i", "n", "g">> >>

\* A filter that takes any host ending with an entry for a subdomain of it.
IsBlockedLoosely(domains, host_lower, url_lower) ==
    \/ \E i \in 1 .. Len(domains) : EndsWith(host_lower, Lower(domains[i]))
    \/ \E i \in 1 .. Len(blocked_keywords) : Contains(url_lower, blocked_keywords[i])

\* Lines 25-33, self.blocked_domains being domains.
IsBlockedIn(domains, host_lower, url_lower) ==
    \/ \E i \in 1 .. Len(domains) :
          \/ host_lower = Lower(domains[i])
          \/ EndsWith(host_lower, <<".">> \o Lower(domains[i]))
    \/ \E i \in 1 .. Len(blocked_keywords) : Contains(url_lower, blocked_keywords[i])
IsBlockedLower(host_lower, url_lower) == IsBlockedIn(blocked_domains, host_lower, url_lower)
is_blocked(host, url) == IsBlockedLower(Lower(host), Lower(url))

(***************************************************************************)
(* client_handler.py: the pure parts                                       *)
(***************************************************************************)
\* ClientHandler._parse_connect_target: <<host, port>>, <<"", 0>> on failure.
HostPort(host, port_str) ==
    IF IsInt(port_str) THEN <<Strip(host), IntOf(port_str)>> ELSE <<<<>>, 0>>
\* Lines 245-253: the IPv6 form, "]" at bracket_end (0: there is none).
BracketTarget(value, bracket_end) ==
    IF bracket_end = 0 THEN <<<<>>, 0>>
    ELSE IF ~StartsWith(SubSeq(value, bracket_end + 1, Len(value)), <<":">>)
    THEN <<<<>>, 0>>
    ELSE HostPort(SubSeq(value, 2, bracket_end - 1),
                  SubSeq(value, bracket_end + 2, Len(value)))
\* Lines 255-257
PlainTarget(hp) == HostPort(hp[1], hp[2])
ConnectTargetOf(value) ==
    IF value = <<>> THEN <<<<>>, 0>>
    ELSE IF Head(value) = "[" THEN BracketTarget(value, Find(value, <<"]">>))
    ELSE IF ~Contains(value, <<":">>) THEN <<<<>>, 0>>
    ELSE PlainTarget(RSplitOnce(value, <<":">>))
parse_connect_target(authority) == ConnectTargetOf(Strip(authority))

\* _recv_http_request, lines 111-119: the Content-Length the header block gives.
ContentLengthValue(v) == IF IsInt(v) THEN IntOf(v) ELSE 0
RECURSIVE FirstContentLength(_)
FirstContentLength(lines) ==
    IF lines = <<>> THEN 0
    ELSE IF StartsWith(Lower(Head(lines)), W_content_length_colon)
    THEN ContentLengthValue(SplitOnce(Head(lines), <<":">>)[2])
    ELSE FirstContentLength(Tail(lines))
content_length(header_bytes) == FirstContentLength(Tail(Split(header_bytes, CRLF)))

\* handle, lines 72-76: an absolute-form path is rewritten to origin-form.
origin_form(path) ==
    IF StartsWith(Lower(path), W_httpSS) \/ StartsWith(Lower(path), W_httpsSS)
    THEN PathOf(urlsplit(path))
    ELSE path

\* What one sendall call writes to the client: one of the four responses (of
\* the 403, the host its body names) or relayed bytes.
Forbidden(host) == [status |-> "403", bytes |-> host]
BadRequest == [status |-> "400", bytes |-> <<>>]
BadGateway == [status |-> "502", bytes |-> <<>>]
Established == [status |-> "200", bytes |-> <<>>]
Relayed(data) == [status |-> "data", bytes |-> data]

(***************************************************************************)
(* The clients of the model: what each one sends, read by read, and what   *)
(* it does once it has sent it all ("eof": it closes; "silent": it sends   *)
(* nothing more and keeps the connection open).                            *)
(***************************************************************************)
W_GET == <<"G", "E", "T">>
W_POST == <<"P", "O", "S", "T">>
W_connect == <<"c", "o", "n", "n", "e", "c", "t">>
W_V11 == <<"H", "T", "T", "P", "/", "1", ".", "1">>
W_ok == <<"o", "k", ".", "c", "o">>
W_bad == <<"b", "a", "d", ".", "c", "o">>
W_subBad == <<"s", ".", "B", "a", "d", ".", "c", "o">>
W_443 == <<":", "4", "4", "3">>

RequestLine(method, target) == method \o <<SP>> \o target \o <<SP>> \o W_V11 \o CRLF
HostLine(value) == W_Host \o <<":", SP>> \o value \o CRLF

R_getAbs == RequestLine(W_GET, W_httpSS \o W_ok \o <<"/", "p">>) \o HostLine(W_ok) \o CRLF
R_getOrigin ==
    RequestLine(W_GET, <<"/", "p", "?", "q">>)
    \o HostLine(W_ok \o <<":", "8", "0", "8", "0">>) \o CRLF
R_getBlocked == RequestLine(W_GET, W_httpSS \o W_bad \o <<"/">>) \o CRLF
R_getKeyword ==
    RequestLine(W_GET, W_httpSS \o W_ok \o <<"/", "A", "d", "u", "l", "t">>) \o CRLF
R_getBadPort == RequestLine(W_GET, W_httpSS \o W_ok \o <<":", "p", "/">>) \o CRLF
R_getNoHost == RequestLine(W_GET, <<"/", "p">>) \o CRLF
\* The names of the headers in other letter cases than the code spells them.
W_host == <<"h", "o", "s", "t">>
W_connection == <<"c", "o", "n", "n", "e", "c", "t", "i", "o", "n">>
W_Proxy_Connection == <<"P", "r", "o", "x", "y", "-">> \o W_Connection
W_keep_alive == <<"k", "e", "e", "p", "-", "a", "l", "i", "v", "e">>
HeaderLine(name, value) == name \o <<":", SP>> \o value \o CRLF
R_getLowerHost == RequestLine(W_GET, <<"/", "p">>) \o HeaderLine(W_host, W_ok) \o CRLF
R_getKeepAlive ==
    RequestLine(W_GET, W_httpSS \o W_ok \o <<"/", "p">>)
    \o HeaderLine(W_Proxy_Connection, W_keep_alive)
    \o HostLine(W_ok)
    \o HeaderLine(W_connection, W_keep_alive) \o CRLF
R_malformed == W_GET \o <<SP, "/", "p">> \o CRLFCRLF
R_postHead ==
    RequestLine(W_POST, W_httpsSS \o W_ok \o <<"/", "p">>)
    \o <<"C", "o", "n", "t", "e", "n", "t", "-", "L", "e", "n", "g", "t", "h", ":", SP, "2">>
    \o CRLFCRLF
R_connect == RequestLine(W_CONNECT, W_ok \o W_443) \o CRLF
R_connectV6 == RequestLine(W_CONNECT, <<"[", ":", ":", "1", "]">> \o W_443) \o CRLF
R_connectBlocked == RequestLine(W_connect, W_subBad \o W_443) \o CRLF
R_connectNoHost == RequestLine(W_CONNECT, W_443) \o CRLF
R_connectBadPort == RequestLine(W_CONNECT, W_ok \o <<":", "p">>) \o CRLF
R_connectNoBracket == RequestLine(W_CONNECT, <<"[", ":", ":", "1">>) \o CRLF
R_connectPortZero == RequestLine(W_CONNECT, W_ok \o <<":", "0">>) \o CRLF
\* A header block that never ends: one header line, then padding.
R_longHead == RequestLine(W_GET, W_httpSS \o W_ok \o <<"/">>) \o <<"x", ":">>
R_longJunk == <<"j", "u", "n", "k">>

NPads == HeaderCap \div RecvSize
Pads == [i \in 1 .. NPads |-> <<Pad>>]

\* The calls that can fail on a connection: sendall to the client,
\* create_connection, sendall to the upstream, recv from the upstream, and the
\* write of the metrics file.
AllFaults == {"client_write", "connect", "upstream_write", "upstream_read", "store"}

RECURSIVE Flatten(_)
\* The bytes of some chunks, one after the other.
Flatten(chunks) == IF chunks = <<>> THEN <<>> ELSE Head(chunks) \o Flatten(Tail(chunks))

\* What the peers of a handler do: all the bytes the client sends and how it
\* ends, the calls that may fail, the number of chunks the upstream sends, how
\* the upstream ends ("eof": it closes; "silent": it sends nothing more), and
\* the milliseconds the exchange with the upstream takes.
Peer(sent, end, faults, up_chunks, up_end, elapsed) ==
    [sent |-> sent, end |-> end, faults |-> faults, up_chunks |-> up_chunks,
     up_end |-> up_end, elapsed |-> elapsed]
NoPeer == Peer(<<>>, "eof", {}, 0, "eof", 0)

\* A scenario: a client and the conditions of its connection.
Script(chunks, end) == [chunks |-> chunks, end |-> end]
Scenario(script, faults, up_chunks, up_end, elapsed) ==
    [chunks |-> script.chunks,
     peer |-> Peer(Flatten(script.chunks), script.end, faults, up_chunks, up_end, elapsed)]

\* Clients whose request never gets as far as an upstream connection.
LocalScripts ==
    { Script(<<>>, "eof"),
      Script(<<>>, "silent"),
      Script(<<W_GET>>, "eof"),
      Script(<<W_GET>>, "silent"),
      Script(<<R_getBlocked>>, "silent"),
      Script(<<R_getKeyword>>, "silent"),
      Script(<<R_getBadPort>>, "silent"),
      Script(<<R_getNoHost>>, "silent"),
      Script(<<R_getLowerHost>>, "silent"),
      Script(<<R_malformed>>, "silent"),
      Script(<<R_postHead \o <<"a">>>>, "silent"),
      Script(<<R_connectBlocked>>, "silent"),
      Script(<<R_connectNoHost>>, "silent"),
      Script(<<R_connectBadPort>>, "silent"),
      Script(<<R_connectNoBracket>>, "silent"),
      Script(<<R_connectPortZero>>, "silent"),
      Script(<<R_longJunk>> \o Pads, "silent") }

\* Clients whose request is forwarded or tunnelled.
UpstreamScripts ==
    { Script(<<R_getAbs>>, "eof"),
      Script(<<SubSeq(R_getAbs, 1, 10), SubSeq(R_getAbs, 11, Len(R_getAbs))>>, "silent"),
      Script(<<R_getOrigin>>, "silent"),
      Script(<<R_getKeepAlive>>, "silent"),
      Script(<<R_postHead, <<"a">>, <<"b">>>>, "silent"),
      Script(<<R_postHead \o <<"a">>>>, "eof"),
      Script(<<R_postHead \o <<"a", "b", "c">>>>, "silent"),
      Script(<<R_connect>>, "eof"),
      Script(<<R_connect>>, "silent"),
      Script(<<R_connect, <<"y">>>>, "eof"),
      Script(<<R_connect \o <<"z">>, <<"y">>>>, "silent"),
      Script(<<R_connectV6>>, "eof"),
      Script(<<R_longHead>> \o Pads, "silent") }

AllScripts ==
    {Scenario(s, AllFaults, 0, "eof", 0) : s \in LocalScripts}
    \cup {Scenario(s, AllFaults, n, e, l) :
             s \in UpstreamScripts, n \in 0 .. MaxUpChunks, e \in {"eof", "silent"},
             l \in 0 .. MaxLatency}

\* The scenarios of the server specification: one per path of the handler.
ServerScripts ==
    { Scenario(Script(<<R_getNoHost>>, "eof"), {}, 0, "eof", 0),
      Scenario(Script(<<R_getBlocked>>, "eof"), {"store"}, 0, "eof", 0),
      Scenario(Script(<<R_postHead, <<"a", "b">>>>, "eof"), {"upstream_read", "store"}, 1, "eof", 1),
      Scenario(Script(<<R_connect>>, "eof"), {"store"}, 0, "silent", 0) }

ScriptsOf(w) == IF w = "any" THEN AllScripts ELSE ServerScripts

\* The bytes of the k-th chunk an upstream sends: k bytes.
UpSym == <<"p", "q", "r", "s", "t">>
UpChunk(k) == [i \in 1 .. k |-> UpSym[((k - 1) % Len(UpSym)) + 1]]

(***************************************************************************)
(* State.                                                                  *)
(***************************************************************************)
VARIABLES
    world,          \* which clients may connect (fixed by Init)
    pending,        \* clients that have yet to connect
    lpc,            \* ProxyServer.start: "loop" | "accept" | "stopped", then "exited"
    shutdown,       \* ProxyServer._shutdown_event
    accept_errors,  \* "Accept failed" lines in the error log
    lock,           \* MetricsLogger._lock: 0, or the handler holding it
    store,          \* the data rows appended to the metrics file by log
    file,           \* the metrics file as __init__ found it, then as it left it
    found,          \* the metrics file as __init__ found it
    call,           \* the arguments of a function called on its own
    ret,            \* what that call returned
    pc,             \* where each handler is ("killed": ended with the process)
    cin,            \* what the client of each handler has yet to send
    peer,           \* what the client does after, and the rest of the scenario
    buffer,         \* _recv_http_request: buffer
    body,           \* _recv_http_request: body
    req,            \* handle: method, url, target, filter decision, forward_bytes
    cout,           \* the sendall calls that reached the client, in order
    client_open,    \* client_socket is open
    upstream,       \* upstream_socket: "none" | "open" | "closed"
    connects,       \* create_connection calls: the <<host, port>> of each
    uin,            \* the sendall calls that reached the upstream, in order
    nrecv,          \* chunks received from the upstream
    response_size,  \* response_size / tunneled_from_upstream
    readable,       \* _tunnel_bidirectional: what is left of select's result
    idle,           \* the last select timed out
    logargs,        \* the row MetricsLogger.log was called with
    errors          \* logger.error calls of each handler

lvars == <<world, pending, lpc, shutdown, accept_errors>>
mvars == <<lock, store, file, found>>
fvars == <<call, ret>>
hvars == <<pc, cin, peer, buffer, body, req, cout, client_open, upstream, connects,
           uin, nrecv, response_size, readable, idle, logargs, errors>>
vars == <<lvars, mvars, fvars, hvars>>

Req(kind, method, url, host, port, blocked, bytes) ==
    [kind |-> kind, method |-> method, url |-> url, host |-> host, port |-> port,
     blocked |-> blocked, request_bytes |-> bytes]
NoReq == Req("none", <<>>, <<>>, <<>>, 0, FALSE, <<>>)

\* MetricsLogger.FIELDNAMES
FIELDNAMES ==
    <<"timestamp", "client_ip", "method", "url", "host", "latency_ms", "request_bytes",
      "response_bytes", "blocked">>

\* A row of the metrics file, by the names of MetricsLogger.FIELDNAMES.
Row(client_ip, method, url, host, latency_ms, request_bytes, response_bytes, blocked) ==
    [timestamp |-> "now", client_ip |-> client_ip, method |-> method, url |-> url,
     host |-> host, latency_ms |-> latency_ms, request_bytes |-> request_bytes,
     response_bytes |-> response_bytes, blocked |-> blocked]
NoRow == Row(0, <<>>, <<>>, <<>>, 0, 0, 0, 0)

\* A metrics file: whether it exists, and its rows, the header first.
File(rows) == [exists |-> TRUE, rows |-> rows]
NoFile == [exists |-> FALSE, rows |-> <<>>]

\* No function is called on its own.
NoCall == [fn |-> "none"]
NoRet == [done |-> FALSE]

\* No handler has been started.
InitHandlers ==
    /\ pc = [h \in Conns |-> "idle"]
    /\ cin = [h \in Conns |-> <<>>]
    /\ peer = [h \in Conns |-> NoPeer]
    /\ buffer = [h \in Conns |-> <<>>]
    /\ body = [h \in Conns |-> <<>>]
    /\ req = [h \in Conns |-> NoReq]
    /\ cout = [h \in Conns |-> <<>>]
    /\ client_open = [h \in Conns |-> FALSE]
    /\ upstream = [h \in Conns |-> "none"]
    /\ connects = [h \in Conns |-> <<>>]
    /\ uin = [h \in Conns |-> <<>>]
    /\ nrecv = [h \in Conns |-> 0]
    /\ response_size = [h \in Conns |-> 0]
    /\ readable = [h \in Conns |-> <<>>]
    /\ idle = [h \in Conns |-> FALSE]
    /\ logargs = [h \in Conns |-> NoRow]
    /\ errors = [h \in Conns |-> <<>>]

InitState(n, w) ==
    /\ world = w
    /\ pending = n
    /\ lpc = "loop"
    /\ shutdown = FALSE
    /\ accept_errors = 0
    /\ lock = 0
    /\ store = <<>>
    /\ file = File(<<FIELDNAMES>>)
    /\ found = NoFile
    /\ call = NoCall
    /\ ret = NoRet
    /\ InitHandlers

\* One client, any request.
Init == InitState(1, "any")
\* MaxConn clients, one request per path of the handler.
InitServer == InitState(MaxConn, "paths")
\* MaxWriters clients, one request per path of the handler.
InitFair == InitState(MaxWriters, "paths")

(***************************************************************************)
(* server.py: the accept loop                                              *)
(***************************************************************************)
\* while not self._shutdown_event.is_set()
LoopTest ==
    /\ lpc = "loop"
    /\ lpc' = IF shutdown THEN "stopped" ELSE "accept"
    /\ UNCHANGED <<world, pending, shutdown, accept_errors, mvars, fvars, hvars>>

\* Lines 48-61: accept() returns a client, a ClientHandler is made for it and
\* its thread is started.
StartHandler(h, s) ==
    /\ lpc = "accept"
    /\ pending > 0
    /\ pc[h] = "idle"
    /\ \A g \in Conns : g < h => pc[g] # "idle"
    /\ pending' = pending - 1
    /\ pc' = [pc EXCEPT ![h] = "recv_header"]
    /\ client_open' = [client_open EXCEPT ![h] = TRUE]
    /\ cin' = [cin EXCEPT ![h] = s.chunks]
    /\ peer' = [peer EXCEPT ![h] = s.peer]
    /\ lpc' = "loop"
    /\ UNCHANGED <<world, shutdown, accept_errors, mvars, fvars, buffer, body, req, cout,
                   upstream, connects, uin, nrecv, response_size, readable, idle,
                   logargs, errors>>

\* A listener that calls handler.handle() itself: it is back at accept() only
\* once the handlers before have returned.
AcceptInline(h, s) ==
    /\ \A g \in Conns : pc[g] \in {"idle", "done"}
    /\ StartHandler(h, s)

\* One turn of the accept loop that accepts a client.
Accept(h, s) == StartHandler(h, s)

\* A listener that leaves the accept loop when accept() raises.
AcceptErrorFatal ==
    /\ lpc = "accept"
    /\ accept_errors < MaxAcceptErrors
    /\ accept_errors' = accept_errors + 1
    /\ lpc' = "stopped"
    /\ UNCHANGED <<world, pending, shutdown, mvars, fvars, hvars>>

\* accept() raises OSError: logged, and the loop goes on.
AcceptError ==
    /\ lpc = "accept"
    /\ accept_errors < MaxAcceptErrors
    /\ accept_errors' = accept_errors + 1
    /\ lpc' = "loop"
    /\ UNCHANGED <<world, pending, shutdown, mvars, fvars, hvars>>

\* ProxyServer.stop
Stop ==
    /\ ~shutdown
    /\ shutdown' = TRUE
    /\ UNCHANGED <<world, pending, lpc, accept_errors, mvars, fvars, hvars>>

\* A handler thread that has been started and has not returned.
InFlight(h) == pc[h] \notin {"idle", "done", "killed"}

\* main.py, line 51: start() has returned, and main returns after it. The
\* handler threads are daemon threads (server.py, line 60): the interpreter
\* does not wait for them, they end where they are, and the descriptors of the
\* process are closed by the system.
MainReturns ==
    /\ lpc = "stopped"
    /\ lpc' = "exited"
    /\ pc' = [h \in Conns |-> IF InFlight(h) THEN "killed" ELSE pc[h]]
    /\ client_open' = [h \in Conns |-> FALSE]
    /\ upstream' = [h \in Conns |-> IF upstream[h] = "open" THEN "closed" ELSE upstream[h]]
    /\ UNCHANGED <<world, pending, shutdown, accept_errors, mvars, fvars, cin, peer, buffer,
                   body, req, cout, connects, uin, nrecv, response_size, readable,
                   idle, logargs, errors>>

(***************************************************************************)
(* client_handler.py: receiving the request                                *)
(***************************************************************************)
header_bytes(h) == Partition(buffer[h], CRLFCRLF)[1]
\* return header_bytes + b"\r\n\r\n" + body
request_data(h) == header_bytes(h) \o CRLFCRLF \o body[h]

\* An exception that ends the handler without the finally clause.
RaiseUnclosed(h, tag) ==
    /\ errors' = [errors EXCEPT ![h] = Append(@, tag)]
    /\ pc' = [pc EXCEPT ![h] = "done"]

\* An exception that reaches handle's except clauses: logged, then finally.
Raise(h, tag) ==
    /\ errors' = [errors EXCEPT ![h] = Append(@, tag)]
    /\ pc' = [pc EXCEPT ![h] = "close"]

\* Lines 110-122: the header loop has ended with parts = buffer.partition(...).
HeaderDone(h, parts) ==
    /\ body' = [body EXCEPT ![h] = parts[3]]
    /\ pc' = [pc EXCEPT ![h] =
                 IF ByteLen(parts[3]) < content_length(parts[1]) THEN "recv_body"
                 ELSE "parse"]

\* Lines 106-108 and the loop test of line 102, the buffer being buf now.
Buffered(h, buf) ==
    /\ buffer' = [buffer EXCEPT ![h] = buf]
    /\ IF ~Contains(buf, CRLFCRLF) /\ ~(ByteLen(buf) > HeaderCap)
       THEN UNCHANGED <<body, pc>>
       ELSE HeaderDone(h, Partition(buf, CRLFCRLF))

\* One turn of the header loop, lines 102-108, and when the loop ends lines 110-122.
RecvHeader(h) ==
    /\ pc[h] = "recv_header"
    /\ UNCHANGED <<lvars, mvars, fvars, peer, req, cout, client_open, upstream, connects, uin,
                   nrecv, response_size, readable, idle, logargs>>
    /\ IF cin[h] = <<>>
       THEN /\ UNCHANGED <<cin, buffer, body>>
            /\ IF peer[h].end = "eof"
               THEN \* recv returns b"": handle returns without a word
                    /\ pc' = [pc EXCEPT ![h] = "close"]
                    /\ UNCHANGED errors
               ELSE \* socket.timeout
                    Raise(h, "timeout")
       ELSE /\ cin' = [cin EXCEPT ![h] = Tail(@)]
            /\ Buffered(h, buffer[h] \o Head(cin[h]))
            /\ UNCHANGED errors

\* Lines 122 and 126, the body being b now.
BodyRead(h, b) ==
    /\ body' = [body EXCEPT ![h] = b]
    /\ pc' = [pc EXCEPT ![h] =
                 IF ByteLen(b) < content_length(header_bytes(h)) THEN "recv_body"
                 ELSE "parse"]

\* One turn of the body loop, lines 122-126.
RecvBody(h) ==
    /\ pc[h] = "recv_body"
    /\ UNCHANGED <<lvars, mvars, fvars, peer, buffer, req, cout, client_open, upstream,
                   connects, uin, nrecv, response_size, readable, idle, logargs>>
    /\ IF cin[h] = <<>>
       THEN /\ UNCHANGED <<cin, body>>
            /\ IF peer[h].end = "eof"
               THEN /\ pc' = [pc EXCEPT ![h] = "parse"]
                    /\ UNCHANGED errors
               ELSE Raise(h, "timeout")
       ELSE /\ cin' = [cin EXCEPT ![h] = Tail(@)]
            /\ BodyRead(h, body[h] \o Head(cin[h]))
            /\ UNCHANGED errors

(***************************************************************************)
(* client_handler.py: from the request to the first write                  *)
(***************************************************************************)
Routed(next, req_) == [next |-> next, req |-> req_]
Bad(method, url) == Req("bad", method, url, <<>>, 0, FALSE, <<>>)

\* A _handle_connect that does not ask the filter.
ConnectRouteUnfiltered(data, method, url, t) ==
    IF t[1] = <<>> \/ t[2] <= 0 THEN Routed("send400", Bad(method, url))
    ELSE Routed("c_connect", Req("connect", method, url, t[1], t[2], FALSE, data))

\* _handle_connect, lines 180-196: where a CONNECT request goes, t being the
\* parsed authority.
ConnectRouteOf(data, method, url, t) ==
    IF t[1] = <<>> \/ t[2] <= 0 THEN Routed("send400", Bad(method, url))
    ELSE IF is_blocked(t[1], url)
    THEN Routed("send403", Req("connect", method, url, t[1], t[2], TRUE, data))
    ELSE Routed("c_connect", Req("connect", method, url, t[1], t[2], FALSE, data))
connect_route(data, method, url) ==
    ConnectRouteOf(data, method, url, parse_connect_target(url))

\* handle, lines 55-91: where any other request goes, t being the parsed target.
ProxyRouteOf(r, t) ==
    IF t.raised THEN Routed("raise", Bad(r.method, r.url))
    ELSE IF t.host = <<>> THEN Routed("send400", Bad(r.method, r.url))
    ELSE IF is_blocked(t.host, r.url)
    THEN Routed("send403", Req("proxy", r.method, r.url, t.host, t.port, TRUE, <<>>))
    ELSE Routed("p_connect",
                Req("proxy", r.method, r.url, t.host, t.port, FALSE,
                    build_forward_request(r.method, origin_form(t.path), r.version,
                                          r.headers, r.body)))
proxy_route(r) == ProxyRouteOf(r, parse_target_from_request(r.url, r.headers))

\* handle, lines 44-53
RouteOf(data, r) ==
    IF ~r.ok THEN Routed("send400", Bad(<<>>, <<>>))
    ELSE IF Upper(r.method) = W_CONNECT THEN connect_route(data, r.method, r.url)
    ELSE proxy_route(r)
route(data) == RouteOf(data, parse_http_request(data))

DispatchTo(h, d) ==
    /\ req' = [req EXCEPT ![h] = d.req]
    /\ IF d.next = "raise"
       THEN Raise(h, "handling")
       ELSE /\ pc' = [pc EXCEPT ![h] = d.next]
            /\ UNCHANGED errors

\* handle, from the parse to the first socket call that follows it.
Dispatch(h) ==
    /\ pc[h] = "parse"
    /\ DispatchTo(h, route(request_data(h)))
    /\ UNCHANGED <<lvars, mvars, fvars, cin, peer, buffer, body, cout, client_open, upstream,
                   connects, uin, nrecv, response_size, readable, idle, logargs>>

\* client_socket.sendall(response): it reaches the client, or it raises.
SendToClient(h, w, next) ==
    \/ /\ cout' = [cout EXCEPT ![h] = Append(@, w)]
       /\ pc' = [pc EXCEPT ![h] = next]
       /\ UNCHANGED errors
    \/ /\ "client_write" \in peer[h].faults
       /\ UNCHANGED cout
       /\ Raise(h, "handling")

\* A handler that returns without the 400.
Send400Silent(h) ==
    /\ pc[h] = "send400"
    /\ pc' = [pc EXCEPT ![h] = "close"]
    /\ UNCHANGED <<lvars, mvars, fvars, cin, peer, buffer, body, req, cout, client_open,
                   upstream, connects, uin, nrecv, response_size, readable, idle,
                   logargs, errors>>

\* _send_bad_request, then return
Send400(h) ==
    /\ pc[h] = "send400"
    /\ SendToClient(h, BadRequest, "close")
    /\ UNCHANGED <<lvars, mvars, fvars, cin, peer, buffer, body, req, client_open, upstream,
                   connects, uin, nrecv, response_size, readable, idle, logargs>>

\* A handler that closes the client socket once the 403 is sent, before the
\* call of _log_blocked_request.
Send403Closing(h) ==
    /\ pc[h] = "send403"
    /\ SendToClient(h, Forbidden(req[h].host), "log")
    /\ logargs' = [logargs EXCEPT ![h] =
                      IF pc'[h] = "log"
                      THEN Row(h, req[h].method, req[h].url, req[h].host, 0, 0, 0, 1)
                      ELSE @]
    /\ client_open' = [client_open EXCEPT ![h] = FALSE]
    /\ UNCHANGED <<lvars, mvars, fvars, cin, peer, buffer, body, req, upstream,
                   connects, uin, nrecv, response_size, readable, idle>>

\* _send_forbidden, then the call of _log_blocked_request
Send403(h) ==
    /\ pc[h] = "send403"
    /\ SendToClient(h, Forbidden(req[h].host), "log")
    /\ logargs' = [logargs EXCEPT ![h] =
                      IF pc'[h] = "log"
                      THEN Row(h, req[h].method, req[h].url, req[h].host, 0, 0, 0, 1)
                      ELSE @]
    /\ UNCHANGED <<lvars, mvars, fvars, cin, peer, buffer, body, req, client_open, upstream,
                   connects, uin, nrecv, response_size, readable, idle>>

\* _send_bad_gateway in the except clause, then return
Send502(h) ==
    /\ pc[h] = "send502"
    /\ SendToClient(h, BadGateway, "close")
    /\ UNCHANGED <<lvars, mvars, fvars, cin, peer, buffer, body, req, client_open, upstream,
                   connects, uin, nrecv, response_size, readable, idle, logargs>>

\* finally: self.client_socket.close()
Close(h) ==
    /\ pc[h] = "close"
    /\ client_open' = [client_open EXCEPT ![h] = FALSE]
    /\ pc' = [pc EXCEPT ![h] = "done"]
    /\ UNCHANGED <<lvars, mvars, fvars, cin, peer, buffer, body, req, cout, upstream, connects,
                   uin, nrecv, response_size, readable, idle, logargs, errors>>

(***************************************************************************)
(* metrics.py: MetricsLogger.log                                           *)
(***************************************************************************)
\* A log that enters the write section without the lock.
LogAcquireUnlocked(h) ==
    /\ pc[h] = "log"
    /\ lock' = h
    /\ pc' = [pc EXCEPT ![h] = "log_write"]
    /\ UNCHANGED <<lvars, store, file, found, fvars, cin, peer, buffer, body, req, cout,
                   client_open, upstream, connects, uin, nrecv, response_size, readable,
                   idle, logargs, errors>>

\* with self._lock
LogAcquire(h) ==
    /\ pc[h] = "log"
    /\ lock = 0
    /\ lock' = h
    /\ pc' = [pc EXCEPT ![h] = "log_write"]
    /\ UNCHANGED <<lvars, store, file, found, fvars, cin, peer, buffer, body, req, cout,
                   client_open, upstream, connects, uin, nrecv, response_size, readable,
                   idle, logargs, errors>>

\* A log whose failure is swallowed: nothing is written to the error log.
LogWriteUnlogged(h) ==
    /\ pc[h] = "log_write"
    /\ lock' = 0
    /\ \/ /\ store' = Append(store, logargs[h])
          /\ pc' = [pc EXCEPT ![h] = "close"]
       \/ /\ "store" \in peer[h].faults
          /\ UNCHANGED store
          /\ pc' = [pc EXCEPT ![h] = "close"]
    /\ UNCHANGED <<lvars, file, found, fvars, cin, peer, buffer, body, req, cout, client_open,
                   upstream, connects, uin, nrecv, response_size, readable, idle, logargs,
                   errors>>

\* A log that keeps the lock when the write fails.
LogWriteHolding(h) ==
    /\ pc[h] = "log_write"
    /\ \/ /\ store' = Append(store, logargs[h])
          /\ lock' = 0
          /\ pc' = [pc EXCEPT ![h] = "close"]
          /\ UNCHANGED errors
       \/ /\ "store" \in peer[h].faults
          /\ UNCHANGED <<store, lock>>
          /\ Raise(h, "handling")
    /\ UNCHANGED <<lvars, file, found, fvars, cin, peer, buffer, body, req, cout, client_open,
                   upstream, connects, uin, nrecv, response_size, readable, idle, logargs>>

\* The row is appended, or opening or writing the file raises; the lock is
\* released either way.
LogWrite(h) ==
    /\ pc[h] = "log_write"
    /\ lock' = 0
    /\ \/ /\ store' = Append(store, logargs[h])
          /\ pc' = [pc EXCEPT ![h] = "close"]
          /\ UNCHANGED errors
       \/ /\ "store" \in peer[h].faults
          /\ UNCHANGED store
          /\ Raise(h, "handling")
    /\ UNCHANGED <<lvars, file, found, fvars, cin, peer, buffer, body, req, cout, client_open,
                   upstream, connects, uin, nrecv, response_size, readable, idle, logargs>>

(***************************************************************************)
(* metrics.py: MetricsLogger.__init__ and _ensure_header                   *)
(***************************************************************************)
\* old_index[field], counted from 1, or 0 when the header has no such column:
\* the dict keeps the last index of a name.
OldIndex(header, field) ==
    IF \E k \in 1 .. Len(header) : header[k] = field
    THEN CHOOSE k \in 1 .. Len(header) :
            /\ header[k] = field
            /\ \A j \in (k + 1) .. Len(header) : header[j] # field
    ELSE 0

\* field in old_index and old_index[field] < len(row)
HasCell(header, row, field) ==
    OldIndex(header, field) # 0 /\ OldIndex(header, field) <= Len(row)

\* A migration that copies cells by position, not by name.
PositionalCell(header, row, field) ==
    IF OldIndex(FIELDNAMES, field) <= Len(row) THEN row[OldIndex(FIELDNAMES, field)]
    ELSE IF field = "blocked" THEN "0"
    ELSE ""

\* Lines 52-57: one cell of a normalized row.
NormalizedCell(header, row, field) ==
    IF HasCell(header, row, field) THEN row[OldIndex(header, field)]
    ELSE IF field = "blocked" THEN "0"
    ELSE ""

\* Lines 50-58
NormalizedRow(header, row) ==
    [k \in 1 .. Len(FIELDNAMES) |-> NormalizedCell(header, row, FIELDNAMES[k])]

\* existing_header and data_rows, lines 42 and 46
HeaderOf(rows) == IF rows = <<>> THEN <<>> ELSE rows[1]
DataRows(rows) == IF rows = <<>> THEN <<>> ELSE Tail(rows)

\* Lines 46-63: the file is written anew.
Rewritten(header, data_rows) ==
    File(<<FIELDNAMES>>
         \o [i \in 1 .. Len(data_rows) |-> NormalizedRow(header, data_rows[i])])

\* _ensure_header: the file it leaves, f being the file it finds.
ensure_header(f) ==
    IF ~f.exists THEN File(<<FIELDNAMES>>)
    ELSE IF HeaderOf(f.rows) = FIELDNAMES THEN f
    ELSE Rewritten(HeaderOf(f.rows), DataRows(f.rows))

\* Headers a file may be found with: the schema before the blocked column, the
\* current columns in another order, a schema with a column of its own, and
\* the current schema.
OldSchema == SelectSeq(FIELDNAMES, LAMBDA f : f # "blocked")
Reordered == <<"blocked">> \o OldSchema
WithStatus == <<"status">> \o OldSchema
FoundHeaders == {OldSchema, Reordered, WithStatus, FIELDNAMES}

\* Rows under a header: each cell names its column and its row, the blocked
\* cell is 0 or 1, and a row may lack its last cell.
FoundRow(header, tag, b, n) ==
    [k \in 1 .. n |-> IF header[k] = "blocked" THEN b ELSE header[k] \o tag]
FoundRows(header) ==
    {FoundRow(header, tag, b, n) :
        tag \in {"-1", "-2"}, b \in {"0", "1"}, n \in {Len(header) - 1, Len(header)}}
RowLists(rows, n) == UNION {[1 .. k -> rows] : k \in 0 .. n}

\* The files __init__ may find: none, an empty one, or a header and rows.
FoundFiles ==
    {NoFile, File(<<>>)}
    \cup UNION {{File(<<h>> \o rs) : rs \in RowLists(FoundRows(h), MaxRows)} :
                 h \in FoundHeaders}

\* The sink is about to be constructed on any of these files.
InitSink ==
    /\ world = "none"
    /\ pending = 0
    /\ lpc = "init"
    /\ shutdown = FALSE
    /\ accept_errors = 0
    /\ lock = 0
    /\ store = <<>>
    /\ file \in FoundFiles
    /\ found = file
    /\ call = NoCall
    /\ ret = NoRet
    /\ InitHandlers

\* MetricsLogger.__init__, lines 25-29
EnsureHeader ==
    /\ lpc = "init"
    /\ lpc' = "constructed"
    /\ file' = ensure_header(file)
    /\ UNCHANGED <<world, pending, shutdown, accept_errors, lock, store, found, fvars, hvars>>

(***************************************************************************)
(* client_handler.py: _proxy_request and _handle_connect                   *)
(***************************************************************************)
\* An except clause that finds the upstream socket left open.
UpstreamErrorLeaking(h, tag) ==
    /\ UNCHANGED upstream
    /\ errors' = [errors EXCEPT ![h] = Append(@, tag)]
    /\ pc' = [pc EXCEPT ![h] = "send502"]

\* The except clause of either try: the with block has closed the upstream
\* socket if there was one, the error is logged, the 502 comes next.
UpstreamError(h, tag) ==
    /\ upstream' = [upstream EXCEPT ![h] = IF @ = "open" THEN "closed" ELSE @]
    /\ errors' = [errors EXCEPT ![h] = Append(@, tag)]
    /\ pc' = [pc EXCEPT ![h] = "send502"]

\* A handler that logs without the count of the bytes it relayed.
FinishedUncounted(h, size) ==
    /\ upstream' = [upstream EXCEPT ![h] = "closed"]
    /\ logargs' = [logargs EXCEPT ![h] =
                      Row(h, req[h].method, req[h].url, req[h].host, peer[h].elapsed,
                          ByteLen(req[h].request_bytes), 0, 0)]
    /\ pc' = [pc EXCEPT ![h] = "log"]
    /\ UNCHANGED errors

\* The with block is left without an exception: the upstream socket is closed,
\* latency_ms is taken and MetricsLogger.log is called.
Finished(h, size) ==
    /\ upstream' = [upstream EXCEPT ![h] = "closed"]
    /\ logargs' = [logargs EXCEPT ![h] =
                      Row(h, req[h].method, req[h].url, req[h].host, peer[h].elapsed,
                          ByteLen(req[h].request_bytes), size, 0)]
    /\ pc' = [pc EXCEPT ![h] = "log"]
    /\ UNCHANGED errors

\* socket.create_connection((target_host, target_port), timeout=10)
CreateConnection(h, tag, next) ==
    /\ connects' = [connects EXCEPT ![h] = Append(@, <<req[h].host, req[h].port>>)]
    /\ \/ /\ upstream' = [upstream EXCEPT ![h] = "open"]
          /\ pc' = [pc EXCEPT ![h] = next]
          /\ UNCHANGED errors
       \/ /\ "connect" \in peer[h].faults
          /\ UpstreamError(h, tag)

\* _proxy_request, line 144
ProxyConnect(h) ==
    /\ pc[h] = "p_connect"
    /\ CreateConnection(h, "upstream", "p_send")
    /\ UNCHANGED <<lvars, mvars, fvars, cin, peer, buffer, body, req, cout, client_open, uin,
                   nrecv, response_size, readable, idle, logargs>>

\* upstream_socket.sendall(request_bytes), line 147
ProxySend(h) ==
    /\ pc[h] = "p_send"
    /\ \/ /\ uin' = [uin EXCEPT ![h] = Append(@, req[h].request_bytes)]
          /\ pc' = [pc EXCEPT ![h] = "p_relay"]
          /\ UNCHANGED <<upstream, errors>>
       \/ /\ "upstream_write" \in peer[h].faults
          /\ UNCHANGED uin
          /\ UpstreamError(h, "upstream")
    /\ UNCHANGED <<lvars, mvars, fvars, cin, peer, buffer, body, req, cout, client_open,
                   connects, nrecv, response_size, readable, idle, logargs>>

\* What recv on the upstream socket gives: the next chunk, then the end.
UpstreamHasData(h) == nrecv[h] < peer[h].up_chunks
UpstreamAtEof(h) == ~UpstreamHasData(h) /\ peer[h].up_end = "eof"

\* One turn of the relay loop, lines 155-160.
ProxyRelay(h) ==
    /\ pc[h] = "p_relay"
    /\ \/ \* data arrives and is sent on, or sending it on raises
          /\ UpstreamHasData(h)
          /\ nrecv' = [nrecv EXCEPT ![h] = @ + 1]
          /\ response_size' =
                 [response_size EXCEPT ![h] = @ + ByteLen(UpChunk(nrecv[h] + 1))]
          /\ \/ /\ cout' = [cout EXCEPT ![h] = Append(@, Relayed(UpChunk(nrecv[h] + 1)))]
                /\ UNCHANGED <<pc, upstream, errors>>
             \/ /\ "client_write" \in peer[h].faults
                /\ UNCHANGED cout
                /\ UpstreamError(h, "upstream")
          /\ UNCHANGED logargs
       \/ \* the upstream has closed: break
          /\ UpstreamAtEof(h)
          /\ Finished(h, response_size[h])
          /\ UNCHANGED <<nrecv, response_size, cout>>
       \/ \* recv raises: an error, or the 10 s pass and nothing has come
          /\ \/ "upstream_read" \in peer[h].faults
             \/ ~UpstreamHasData(h) /\ peer[h].up_end = "silent"
          /\ UpstreamError(h, "upstream")
          /\ UNCHANGED <<nrecv, response_size, cout, logargs>>
    /\ UNCHANGED <<lvars, mvars, fvars, cin, peer, buffer, body, req, client_open, connects,
                   uin, readable, idle>>

\* _handle_connect, line 200
TunnelConnect(h) ==
    /\ pc[h] = "c_connect"
    /\ CreateConnection(h, "connect_upstream", "c_200")
    /\ UNCHANGED <<lvars, mvars, fvars, cin, peer, buffer, body, req, cout, client_open, uin,
                   nrecv, response_size, readable, idle, logargs>>

\* client_socket.sendall(b"HTTP/1.1 200 Connection Established\r\n\r\n"), line 201
Send200(h) ==
    /\ pc[h] = "c_200"
    /\ \/ /\ cout' = [cout EXCEPT ![h] = Append(@, Established)]
          /\ pc' = [pc EXCEPT ![h] = "tunnel"]
          /\ UNCHANGED <<upstream, errors>>
       \/ /\ "client_write" \in peer[h].faults
          /\ UNCHANGED cout
          /\ UpstreamError(h, "connect_upstream")
    /\ UNCHANGED <<lvars, mvars, fvars, cin, peer, buffer, body, req, client_open, connects,
                   uin, nrecv, response_size, readable, idle, logargs>>

\* What select can report: the client socket is readable once the client has
\* sent something or has closed, the upstream socket once the upstream has sent
\* something, has closed, or has failed.
ClientReadable(h) == cin[h] # <<>> \/ peer[h].end = "eof"
UpstreamReadable(h) ==
    UpstreamHasData(h) \/ UpstreamAtEof(h) \/ "upstream_read" \in peer[h].faults

\* select.select(sockets, [], [], 30), lines 274-276: the readable sockets in
\* the order of the list, or none when the 30 s pass; then the loop goes on.
TunnelSelect(h) ==
    /\ pc[h] = "tunnel"
    /\ readable[h] = <<>>
    /\ \E r \in {<<>>, <<"client">>, <<"upstream">>, <<"client", "upstream">>} :
          /\ (\E i \in 1 .. Len(r) : r[i] = "client") => ClientReadable(h)
          /\ (\E i \in 1 .. Len(r) : r[i] = "upstream") => UpstreamReadable(h)
          /\ readable' = [readable EXCEPT ![h] = r]
          /\ idle' = [idle EXCEPT ![h] = (r = <<>>)]
    /\ UNCHANGED <<lvars, mvars, fvars, pc, cin, peer, buffer, body, req, cout, client_open,
                   upstream, connects, uin, nrecv, response_size, logargs, errors>>

\* The for loop is left by return or by an exception.
TunnelLeft(h) == readable' = [readable EXCEPT ![h] = <<>>]

\* A tunnel that counts the bytes of both directions.
CopyFromClientCounted(h) ==
    IF cin[h] = <<>>
    THEN /\ Finished(h, response_size[h])
         /\ TunnelLeft(h)
         /\ UNCHANGED <<cin, uin, cout, nrecv, response_size>>
    ELSE /\ cin' = [cin EXCEPT ![h] = Tail(@)]
         /\ \/ /\ uin' = [uin EXCEPT ![h] = Append(@, Head(cin[h]))]
               /\ response_size' = [response_size EXCEPT ![h] = @ + ByteLen(Head(cin[h]))]
               /\ readable' = [readable EXCEPT ![h] = Tail(@)]
               /\ UNCHANGED <<pc, upstream, errors>>
            \/ /\ "upstream_write" \in peer[h].faults
               /\ UpstreamError(h, "connect_upstream")
               /\ TunnelLeft(h)
               /\ UNCHANGED <<uin, response_size>>
         /\ UNCHANGED <<cout, nrecv, logargs>>

\* One turn of the for loop, lines 278-285, src being the client socket.
CopyFromClient(h) ==
    IF cin[h] = <<>>
    THEN \* the client has closed: return tunneled_from_upstream
         /\ Finished(h, response_size[h])
         /\ TunnelLeft(h)
         /\ UNCHANGED <<cin, uin, cout, nrecv, response_size>>
    ELSE /\ cin' = [cin EXCEPT ![h] = Tail(@)]
         /\ \/ /\ uin' = [uin EXCEPT ![h] = Append(@, Head(cin[h]))]
               /\ readable' = [readable EXCEPT ![h] = Tail(@)]
               /\ UNCHANGED <<pc, upstream, errors>>
            \/ /\ "upstream_write" \in peer[h].faults
               /\ UpstreamError(h, "connect_upstream")
               /\ TunnelLeft(h)
               /\ UNCHANGED uin
         /\ UNCHANGED <<cout, nrecv, response_size, logargs>>

\* One turn of the for loop, lines 278-285, src being the upstream socket.
CopyFromUpstream(h) ==
    \/ \* data from the upstream, sent on to the client
       /\ UpstreamHasData(h)
       /\ nrecv' = [nrecv EXCEPT ![h] = @ + 1]
       /\ \/ /\ cout' = [cout EXCEPT ![h] = Append(@, Relayed(UpChunk(nrecv[h] + 1)))]
             /\ response_size' =
                    [response_size EXCEPT ![h] = @ + ByteLen(UpChunk(nrecv[h] + 1))]
             /\ readable' = [readable EXCEPT ![h] = Tail(@)]
             /\ UNCHANGED <<pc, upstream, errors>>
          \/ /\ "client_write" \in peer[h].faults
             /\ UpstreamError(h, "connect_upstream")
             /\ TunnelLeft(h)
             /\ UNCHANGED <<cout, response_size>>
       /\ UNCHANGED <<cin, uin, logargs>>
    \/ \* the upstream has closed: return tunneled_from_upstream
       /\ UpstreamAtEof(h)
       /\ Finished(h, response_size[h])
       /\ TunnelLeft(h)
       /\ UNCHANGED <<cin, uin, cout, nrecv, response_size>>
    \/ \* recv raises
       /\ "upstream_read" \in peer[h].faults
       /\ UpstreamError(h, "connect_upstream")
       /\ TunnelLeft(h)
       /\ UNCHANGED <<cin, uin, cout, nrecv, response_size, logargs>>

TunnelCopy(h) ==
    /\ pc[h] = "tunnel"
    /\ readable[h] # <<>>
    /\ IF Head(readable[h]) = "client" THEN CopyFromClient(h) ELSE CopyFromUpstream(h)
    /\ UNCHANGED <<lvars, mvars, fvars, peer, buffer, body, req, client_open, connects, idle>>

(***************************************************************************)
(* filter_engine.py: is_blocked called on its own                          *)
(***************************************************************************)
\* Nothing but the call happens: no listener, no handler, no sink.
Alone ==
    /\ world = "none"
    /\ pending = 0
    /\ lpc = "none"
    /\ shutdown = FALSE
    /\ accept_errors = 0
    /\ lock = 0
    /\ store = <<>>
    /\ file = NoFile
    /\ found = NoFile
    /\ ret = NoRet
    /\ InitHandlers

W_notbad == <<"n", "o", "t">> \o W_bad
W_Bad == <<"B", "a", "d", ".", "c", "o">>

\* Blocklists, hosts and urls the filter is asked about.
FilterDomains == {<<>>, <<W_bad>>, <<W_Bad>>, <<W_ok, W_bad>>}
FilterHosts ==
    {<<>>, W_ok, W_bad, W_Bad, W_subBad, W_notbad, <<".">> \o W_bad, W_bad \o <<".">>,
     W_bad \o <<".", "o">>, <<"S", ".", "s", ".">> \o W_Bad}
FilterUrls ==
    {<<"/">>, <<"/", "a", "d", "u", "l", "t">>, <<"/", "A", "d", "u", "L", "T", "/">>,
     <<"/", "a", "d", "u", "l">>, <<"/", "p", "h", "i", "s", "h", "i", "n", "g">>,
     W_httpSS \o W_bad \o <<"/">>}

InitFilter ==
    /\ call \in [fn : {"is_blocked"}, domains : FilterDomains, host : FilterHosts,
                  url : FilterUrls]
    /\ Alone

\* FilterEngine.is_blocked(host, url), the blocklist being call.domains
CallIsBlocked ==
    /\ call.fn = "is_blocked"
    /\ ~ret.done
    /\ ret' = [done |-> TRUE,
               blocked |-> IsBlockedIn(call.domains, Lower(call.host), Lower(call.url))]
    /\ UNCHANGED <<lvars, mvars, call, hvars>>

NextFilter == CallIsBlocked
SpecFilter == InitFilter /\ [][NextFilter]_vars

(***************************************************************************)
(* The system.                                                             *)
(***************************************************************************)
Next ==
    \/ LoopTest
    \/ \E h \in Conns, s \in ScriptsOf(world) : Accept(h, s)
    \/ AcceptError
    \/ Stop
    \/ MainReturns
    \/ \E h \in Conns : RecvHeader(h)
    \/ \E h \in Conns : RecvBody(h)
    \/ \E h \in Conns : Dispatch(h)
    \/ \E h \in Conns : Send400(h)
    \/ \E h \in Conns : Send403(h)
    \/ \E h \in Conns : ProxyConnect(h)
    \/ \E h \in Conns : ProxySend(h)
    \/ \E h \in Conns : ProxyRelay(h)
    \/ \E h \in Conns : TunnelConnect(h)
    \/ \E h \in Conns : Send200(h)
    \/ \E h \in Conns : TunnelSelect(h)
    \/ \E h \in Conns : TunnelCopy(h)
    \/ \E h \in Conns : Send502(h)
    \/ \E h \in Conns : LogAcquire(h)
    \/ \E h \in Conns : LogWrite(h)
    \/ \E h \in Conns : Close(h)

Spec == Init /\ [][Next]_vars
SpecServer == InitServer /\ [][Next]_vars

\* Fair scheduling of the threads inside MetricsLogger.log: a handler that can
\* take the lock, or that holds it and can write, does so in the end.
FairLog == \A h \in Conns : WF_vars(LogAcquire(h)) /\ WF_vars(LogWrite(h))
SpecFair == InitFair /\ [][Next]_vars /\ FairLog

\* The construction of the metrics sink alone.
NextSink == EnsureHeader
SpecSink == InitSink /\ [][NextSink]_vars

(***************************************************************************)
(* Properties.                                                             *)
(***************************************************************************)
\* The metrics rows a handler has appended.
Records(h) == {i \in 1 .. Len(store) : store[i].client_ip = h}
\* The handler has taken the request as far as the filter.
Resolved(h) == req[h].kind \in {"proxy", "connect"}
\* An except clause of _proxy_request or _handle_connect has run.
UpstreamFailed(h) ==
    \E i \in 1 .. Len(errors[h]) : errors[h][i] \in {"upstream", "connect_upstream"}

\* C1: on both paths the filter decision is taken before any upstream connection
\* is opened: every create_connection call of a handler comes after its request
\* has been resolved and found not blocked, it goes to the resolved host and
\* port, and a handler whose host or url the filter blocks never calls
\* create_connection, whatever else fails.
FilterBeforeConnect ==
    \A h \in Conns :
       /\ connects[h] # <<>> =>
             /\ Resolved(h)
             /\ ~req[h].blocked
             /\ \A i \in 1 .. Len(connects[h]) :
                   connects[h][i] = <<req[h].host, req[h].port>>
       /\ (Resolved(h) /\ is_blocked(req[h].host, req[h].url)) =>
             /\ req[h].blocked
             /\ connects[h] = <<>>
             /\ upstream[h] = "none"

\* C1, its case: a blocked CONNECT whose handler has ended after the write of
\* the 403 failed.
BlockedConnectEndedInError ==
    \E h \in Conns :
       /\ req[h].kind = "connect"
       /\ req[h].blocked
       /\ errors[h] = <<"handling">>
       /\ pc[h] = "done"

\* C2: a handler that has ended a blocked request has sent nothing but the 403
\* naming the host and has appended a row with blocked = 1 and zero latency and
\* byte counts (or has called MetricsLogger.log with that row, the write of
\* the file having failed).
BlockedIsRecorded ==
    \A h \in Conns :
       (pc[h] = "done" /\ Resolved(h) /\ req[h].blocked) =>
          /\ \A i \in 1 .. Len(cout[h]) : i = 1 /\ cout[h][i] = Forbidden(req[h].host)
          /\ logargs[h] = Row(h, req[h].method, req[h].url, req[h].host, 0, 0, 0, 1)
          /\ \/ \E i \in Records(h) : store[i] = logargs[h]
             \/ errors[h] # <<>>

\* C3: a handler that has ended a forwarded, tunnelled or blocked request has
\* appended exactly one metrics row (or has called MetricsLogger.log once, the
\* write of the file having failed), and no handler ever appends more than one.
OneRecordPerOutcome ==
    \A h \in Conns :
       /\ Cardinality(Records(h)) <= 1
       /\ (pc[h] = "done" /\ Resolved(h)) =>
             \/ Cardinality(Records(h)) = 1
             \/ Records(h) = {} /\ logargs[h] # NoRow

\* C4: a handler that has ended a request which passed the filter and then met
\* an upstream failure has appended exactly one row, with the byte counts it
\* had accumulated.
UpstreamFailureIsRecorded ==
    \A h \in Conns :
       (pc[h] = "done" /\ Resolved(h) /\ ~req[h].blocked /\ UpstreamFailed(h)) =>
          /\ Cardinality(Records(h)) = 1
          /\ \A i \in Records(h) :
                /\ store[i].request_bytes = ByteLen(req[h].request_bytes)
                /\ store[i].response_bytes = response_size[h]
                /\ store[i].blocked = 0

\* C5: a handler whose request has no resolved target appends no row and opens
\* no upstream connection at any time; when it has ended, it has written the
\* 400 and nothing else if the request was refused and no call raised, and
\* nothing at all if the request never arrived whole (the peer closed, or the
\* receive timed out, which is logged).
UnresolvedIsNotRecorded ==
    \A h \in Conns :
       ~Resolved(h) =>
          /\ Records(h) = {}
          /\ connects[h] = <<>>
          /\ upstream[h] = "none"
          /\ pc[h] = "done" =>
                /\ cout[h] \in {<<>>, <<BadRequest>>}
                /\ (req[h].kind = "bad" /\ errors[h] = <<>>) => cout[h] = <<BadRequest>>
                /\ req[h].kind = "none" =>
                      /\ cout[h] = <<>>
                      /\ errors[h] \in {<<>>, <<"timeout">>}
                      /\ (cin[h] = <<>> /\ peer[h].end = "silent") => errors[h] = <<"timeout">>

\* C5, its case: a CONNECT request with an authority that does not parse has
\* been answered with the 400.
BadAuthorityRefused ==
    \E h \in Conns :
       /\ pc[h] = "done"
       /\ req[h].kind = "bad"
       /\ Upper(req[h].method) = W_CONNECT
       /\ cout[h] = <<BadRequest>>

\* C6: a handler that has terminated has closed its client socket, on every
\* exit path.
ClientSocketClosed ==
    \A h \in Conns : pc[h] = "done" => ~client_open[h]

\* C6, its case: the handler has ended after an upstream failure followed by a
\* failed write of the 502.
EndedAfterFailed502 ==
    \E h \in Conns :
       /\ pc[h] = "done"
       /\ errors[h] = <<"connect_upstream", "handling">>

\* C7: when neither socket of a tunnel has become readable for the idle
\* timeout, the tunnel ends: no handler is in the tunnel after a select that
\* timed out.
IdleTunnelEnds ==
    \A h \in Conns : idle[h] => pc[h] # "tunnel"

\* C8: a 502 is written to the client only if nothing has been written to it
\* before on this connection.
BadGatewayOnlyFirst ==
    \A h \in Conns :
       \A i \in 1 .. Len(cout[h]) : cout[h][i] = BadGateway => i = 1

\* C9: a handler whose buffer has passed 64 KiB without the header terminator
\* sends no response, opens no upstream connection and appends no row.
OverlongHeadAbandoned ==
    \A h \in Conns :
       (ByteLen(buffer[h]) > HeaderCap /\ ~Contains(buffer[h], CRLFCRLF)) =>
          /\ cout[h] = <<>>
          /\ connects[h] = <<>>
          /\ Records(h) = {}

\* C10: the accept loop never waits on request processing: while it has not
\* stopped, the listener's next step is enabled whatever the handlers are
\* doing: the loop test at the top of the loop, and at accept() the start of a
\* handler for any client that is there.
AcceptNeverWaits ==
    /\ lpc = "loop" => ENABLED LoopTest
    /\ (lpc = "accept" /\ pending > 0) =>
          \A s \in ScriptsOf(world) : \E h \in Conns : ENABLED Accept(h, s)

\* C10, its case: the listener is at accept() with a client there while one
\* handler is in a tunnel and another waits for the metrics lock or holds it.
AcceptBesideBusyHandlers ==
    /\ ~shutdown
    /\ lpc = "accept"
    /\ pending > 0
    /\ \E g, h \in Conns :
          /\ pc[g] = "tunnel"
          /\ pc[h] \in {"log", "log_write"}

\* C11: once stop() has signalled shutdown the listener accepts no further
\* connection and starts no further handler, also when it was already waiting
\* inside accept(): no step taken with the event set takes a client.
NoAcceptAfterStop ==
    [][shutdown => (pending' = pending /\ \A h \in Conns : pc[h] = "idle" => pc'[h] = "idle")]_vars

\* C12: a handler that is in flight when the accept loop ends runs to its own
\* completion: no handler is ended by the return of main.
HandlersRunToCompletion ==
    \A h \in Conns : pc[h] # "killed"

\* A step in which the log call of handler h returns without an exception.
LogCompletes(h) ==
    /\ pc[h] = "log_write"
    /\ pc'[h] = "close"
    /\ errors'[h] = errors[h]

\* C13: for handlers calling MetricsLogger.log in any interleaving, at most one
\* is inside the write section at a time and it holds the lock; every row of
\* the store is a complete nine-field row; every completed log call appends
\* exactly its own row at the end, and no other step changes the store, so
\* earlier rows are never modified and the rows are those of the start plus
\* one per completed call.
SerializedAppends ==
    /\ [](\A g, h \in Conns :
             (pc[g] = "log_write" /\ pc[h] = "log_write") => (g = h /\ lock = h))
    /\ [](\A i \in 1 .. Len(store) :
             DOMAIN store[i] = {FIELDNAMES[k] : k \in 1 .. Len(FIELDNAMES)})
    /\ [][\A h \in Conns : LogCompletes(h) => store' = Append(store, logargs[h])]_vars
    /\ [][(\A h \in Conns : ~LogCompletes(h)) => store' = store]_vars

\* C13, its case: one handler is inside the write section while another waits
\* for the lock, a third having already written its row.
WriterAndWaiter ==
    \E g, h \in Conns :
       /\ pc[g] = "log_write"
       /\ pc[h] = "log"
       /\ Len(store) = 1

\* The sink has been constructed on a file whose header was not the schema.
Migrated ==
    /\ lpc = "constructed"
    /\ found.exists
    /\ HeaderOf(found.rows) # FIELDNAMES

\* Every cell the found file had under a column of the schema is in the same
\* row of the file left, under that column.
CellsKeptByName ==
    \A i \in 1 .. Len(DataRows(found.rows)) :
       \A k \in 1 .. Len(FIELDNAMES) :
          HasCell(HeaderOf(found.rows), DataRows(found.rows)[i], FIELDNAMES[k]) =>
             DataRows(file.rows)[i][k] =
                DataRows(found.rows)[i][OldIndex(HeaderOf(found.rows), FIELDNAMES[k])]

\* C14, as stated: after initialization on a file whose header lacks the
\* blocked column or has the columns in another order, the header is the
\* nine-column schema, the data rows are as many as before and in the same
\* order with their cells kept by column name, and every row has blocked = 0.
MigrationZeroesBlocked ==
    Migrated =>
       /\ HeaderOf(file.rows) = FIELDNAMES
       /\ Len(DataRows(file.rows)) = Len(DataRows(found.rows))
       /\ CellsKeptByName
       /\ \A i \in 1 .. Len(DataRows(file.rows)) :
             DataRows(file.rows)[i][OldIndex(FIELDNAMES, "blocked")] = "0"

\* C14, amended: as above, but blocked = 0 only in the rows that had no blocked
\* cell (a row that had one keeps its value), every other missing cell is
\* empty, and every row has nine cells.
MigrationKeepsRows ==
    Migrated =>
       /\ HeaderOf(file.rows) = FIELDNAMES
       /\ Len(DataRows(file.rows)) = Len(DataRows(found.rows))
       /\ CellsKeptByName
       /\ \A i \in 1 .. Len(DataRows(file.rows)) :
             /\ Len(DataRows(file.rows)[i]) = Len(FIELDNAMES)
             /\ \A k \in 1 .. Len(FIELDNAMES) :
                   ~HasCell(HeaderOf(found.rows), DataRows(found.rows)[i], FIELDNAMES[k]) =>
                      DataRows(file.rows)[i][k] = IF FIELDNAMES[k] = "blocked" THEN "0" ELSE ""

\* C14, its case: a file with the schema before the blocked column and as many
\* rows as the bound allows has been migrated.
OldSchemaMigrated ==
    /\ Migrated
    /\ HeaderOf(found.rows) = OldSchema
    /\ Len(DataRows(found.rows)) = MaxRows
    /\ Len(DataRows(found.rows)[1]) = Len(OldSchema)
    /\ file # found

\* Two texts are equal when letter case is ignored.
SameIgnoringCase(s, t) ==
    Len(s) = Len(t) /\ \A i \in 1 .. Len(s) : LowerChar(s[i]) = LowerChar(t[i])

\* What the filter is to answer: the host is an entry, or something, a dot and
\* an entry, or the url has a keyword somewhere, letter case ignored.
ToBeBlocked(domains, host, url) ==
    \/ \E i \in 1 .. Len(domains) : SameIgnoringCase(host, domains[i])
    \/ \E i \in 1 .. Len(domains) :
          \E k \in 1 .. Len(host) :
             /\ host[k] = "."
             /\ SameIgnoringCase(SubSeq(host, k + 1, Len(host)), domains[i])
    \/ \E i \in 1 .. Len(blocked_keywords) :
          \E a \in 1 .. (Len(url) - Len(blocked_keywords[i]) + 1) :
             SameIgnoringCase(SubSeq(url, a, a + Len(blocked_keywords[i]) - 1),
                              blocked_keywords[i])

\* C15: is_blocked(host, url) is true exactly when, letter case ignored, the
\* host equals a blocklist entry, or ends with a dot followed by an entry, or
\* the url contains a keyword.
FilterDecision ==
    ret.done => (ret.blocked <=> ToBeBlocked(call.domains, call.host, call.url))

\* C15, its case: with the one entry bad.co and a url without keyword, the
\* host notbad.co has been found not blocked.
LookalikeNotBlocked ==
    /\ ret.done
    /\ call.domains = <<W_bad>>
    /\ call.host = W_notbad
    /\ call.url = <<"/">>
    /\ ~ret.blocked


\* The request a handler has read, as the client wrote it: the words of its
\* request line and its header lines.
SentRequestLine(h) == Split(Split(header_bytes(h), CRLF)[1], <<SP>>)
SentLines(h) == Tail(Split(header_bytes(h), CRLF))
\* The name of a header line, letter case ignored, and its value.
NameOf(line) == Lower(Strip(SplitOnce(line, <<":">>)[1]))
ValueOf(line) == Strip(SplitOnce(line, <<":">>)[2])
IsNamed(line, names) == Contains(line, <<":">>) /\ NameOf(line) \in names
Named(lines, names) == SelectSeq(lines, LAMBDA l : IsNamed(l, names))
Without(lines, names) == SelectSeq(lines, LAMBDA l : ~IsNamed(l, names))
\* The headers of some lines, each a name as spelled and a value.
HeaderOfLine(line) == <<Strip(SplitOnce(line, <<":">>)[1]), ValueOf(line)>>
WithColon(lines) == SelectSeq(lines, LAMBDA l : Contains(l, <<":">>))
HeadersOfLines(lines) == [i \in 1 .. Len(lines) |-> HeaderOfLine(lines[i])]
HeadersIn(lines) == HeadersOfLines(WithColon(lines))

\* The handler has parsed a request that is not a CONNECT, whose target is in
\* origin form, and that has a Host header under some spelling of the name.
OriginFormWithHost(h) ==
    /\ req[h].kind # "none"
    /\ Len(SentRequestLine(h)) = 3
    /\ Upper(SentRequestLine(h)[1]) # W_CONNECT
    /\ StartsWith(SentRequestLine(h)[2], <<"/">>)
    /\ Named(SentLines(h), {W_host}) # <<>>

\* The host and the port a Host header value names.
HostOfValue(v) == IF Contains(v, <<":">>) THEN SplitOnce(v, <<":">>)[1] ELSE v
PortOfSuffix(p) == IF AllDigits(p) THEN DigitsVal(p) ELSE DefaultHttpPort
PortOfValue(v) ==
    IF Contains(v, <<":">>) THEN PortOfSuffix(SplitOnce(v, <<":">>)[2])
    ELSE DefaultHttpPort
ResolvedTo(h, v) ==
    /\ req[h].kind = "proxy"
    /\ req[h].host = HostOfValue(v)
    /\ req[h].port = PortOfValue(v)
    /\ ~req[h].blocked =>
          Split(Split(req[h].request_bytes, CRLF)[1], <<SP>>)[2] = SentRequestLine(h)[2]

\* C16: a request in origin form with a Host header, its name in any letter
\* case, is resolved to the host of that header, to its port (80 when it names
\* none) and to the path as sent, and is not answered 400.
HostHeaderResolves ==
    \A h \in Conns :
        OriginFormWithHost(h) => ResolvedTo(h, ValueOf(Named(SentLines(h), {W_host})[1]))

\* The request line, the header lines and the body of the bytes built for the
\* upstream.
ForwardedHead(h) == Split(Partition(req[h].request_bytes, CRLFCRLF)[1], CRLF)
ForwardedBody(h) == Partition(req[h].request_bytes, CRLFCRLF)[3]
OneConnectionClose(lines) ==
    /\ Len(Named(lines, {W_connection})) = 1
    /\ \A i \in 1 .. Len(lines) :
          IsNamed(lines[i], {W_connection}) => ValueOf(lines[i]) = W_close
ForwardedFrom(h, sent, head) ==
    /\ Split(head[1], <<SP>>)[1] = sent[1]
    /\ Split(head[1], <<SP>>)[3] = sent[3]
    /\ HeadersIn(Without(Tail(head), {W_connection}))
         = HeadersIn(Without(SentLines(h), {W_connection, W_proxy_connection}))
    /\ Named(Tail(head), {W_proxy_connection}) = <<>>
    /\ OneConnectionClose(Tail(head))
    /\ ForwardedBody(h) = body[h]

\* C17: the bytes built for the upstream are the request line, the headers of
\* the client in their order without any Proxy-Connection header, one single
\* Connection header, whose value is close, whatever Connection header the
\* client sent in whatever letter case, an empty line, and the body unchanged.
ForwardedAsBuilt ==
    \A h \in Conns :
        (req[h].kind = "proxy" /\ ~req[h].blocked)
            => ForwardedFrom(h, SentRequestLine(h), ForwardedHead(h))


\* What the client of a CONNECT sent after the header block, and what the
\* upstream sends in all.
SentAfterHead(h) == Partition(peer[h].sent, CRLFCRLF)[3]
UpstreamSends(h) == Flatten([k \in 1 .. peer[h].up_chunks |-> UpChunk(k)])
RECURSIVE RelayedBytes(_)
\* The bytes written to the client that are not a response of the proxy.
RelayedBytes(writes) ==
    IF writes = <<>> THEN <<>>
    ELSE (IF Head(writes).status = "data" THEN Head(writes).bytes ELSE <<>>)
         \o RelayedBytes(Tail(writes))

\* C18: in a CONNECT tunnel the bytes delivered to the upstream are at every
\* moment a prefix of what the client sent after the header block of the
\* CONNECT, the bytes that came in the same read as that block included, and
\* the bytes delivered to the client a prefix of what the upstream sent.
TunnelIsVerbatim ==
    \A h \in Conns :
        req[h].kind = "connect" =>
            /\ StartsWith(SentAfterHead(h), Flatten(uin[h]))
            /\ StartsWith(UpstreamSends(h), RelayedBytes(cout[h]))


\* The handler has ended an allowed request that is not a CONNECT, no call
\* having failed: the upstream has sent its bytes and closed.
RelayCompleted(h) ==
    /\ pc[h] = "done"
    /\ req[h].kind = "proxy"
    /\ ~req[h].blocked
    /\ errors[h] = <<>>
RelayRecorded(h, row) ==
    /\ row.host = req[h].host
    /\ row.blocked = 0
    /\ row.response_bytes = ByteLen(UpstreamSends(h))
    /\ row.request_bytes = ByteLen(Flatten(uin[h]))

\* C19: when the upstream of an allowed request that is not a CONNECT has sent
\* N bytes and closed, the client has received those N bytes and nothing else,
\* and one row has been appended with the resolved host, blocked = 0,
\* response_bytes = N and request_bytes the length of the forwarded request.
RelayedAndRecorded ==
    \A h \in Conns :
        RelayCompleted(h) =>
            /\ \A i \in 1 .. Len(cout[h]) : cout[h][i].status = "data"
            /\ RelayedBytes(cout[h]) = UpstreamSends(h)
            /\ Cardinality(Records(h)) = 1
            /\ \A i \in Records(h) : RelayRecorded(h, store[i])

\* C19, its case: a relay has completed with a response of three bytes in two
\* chunks, and its row is in the file.
ThreeBytesRelayed ==
    \E h \in Conns :
        /\ RelayCompleted(h)
        /\ Len(UpstreamSends(h)) = 3
        /\ Len(cout[h]) = MaxUpChunks
        /\ \E i \in Records(h) : store[i].response_bytes = 3


\* The step appends a row of handler h to the metrics file.
AppendsRow(h) ==
    /\ Len(store') = Len(store) + 1
    /\ store'[Len(store')].client_ip = h
\* The outcome of the request is known: it was blocked and the 403 is written,
\* or the exchange with the upstream is over and its socket closed.
OutcomeKnown(h) ==
    /\ Resolved(h)
    /\ IF req[h].blocked THEN cout[h] = <<Forbidden(req[h].host)>>
       ELSE upstream[h] = "closed"
\* Nothing is exchanged any more on the connection of handler h.
ExchangeOver(h) ==
    /\ cout'[h] = cout[h]
    /\ uin'[h] = uin[h]
    /\ nrecv'[h] = nrecv[h]
    /\ req'[h] = req[h]

\* C20: a row is appended for a connection only when the outcome of its request
\* is known, nothing being exchanged afterwards, and while its client socket is
\* open: the socket is closed after the row is appended, never before.
RecordBeforeClose ==
    [][\A h \in Conns :
          /\ AppendsRow(h) => (OutcomeKnown(h) /\ client_open[h] /\ client_open'[h])
          /\ Records(h) # {} => ExchangeOver(h)]_vars

\* C20, its case: the row of a tunnel that has ended is in the file and the
\* client socket is not closed yet.
RecordedAndStillOpen ==
    \E h \in Conns :
        /\ pc[h] = "close"
        /\ req[h].kind = "connect"
        /\ Records(h) # {}
        /\ client_open[h]


\* All that belongs to one handler.
HandlerState(h) ==
    <<pc[h], cin[h], peer[h], buffer[h], body[h], req[h], cout[h], client_open[h],
      upstream[h], connects[h], uin[h], nrecv[h], response_size[h], readable[h], idle[h],
      logargs[h], errors[h]>>
\* The step is the failure of the write of handler h's row.
LogFails(h) == pc[h] = "log_write" /\ pc'[h] = "close" /\ store' = store
\* The handler has called MetricsLogger.log and the call has raised.
LogFailed(h) ==
    /\ logargs[h] # NoRow
    /\ Records(h) = {}
    /\ pc[h] \in {"close", "done"}
\* What the failure of the write of handler h's row does and leaves alone.
LogFailureStep(h) ==
    /\ errors'[h] = Append(errors[h], "handling")
    /\ cout'[h] = cout[h]
    /\ client_open'[h] = client_open[h]
    /\ lock' = 0
    /\ lvars' = lvars
    /\ \A g \in Conns \ {h} : HandlerState(g)' = HandlerState(g)

\* C21: when the append of a metrics row fails, on the forwarded, the tunnelled
\* or the blocked path, the failure is written to the error log, what the
\* client has received stays as it is, the handler goes on to close the client
\* socket and ends, and the listener and the other handlers are left as they
\* were.
LogFailureContained ==
    /\ [][\A h \in Conns : LogFails(h) => LogFailureStep(h)]_vars
    /\ [](\A h \in Conns :
             LogFailed(h) =>
                /\ errors[h] # <<>> /\ errors[h][Len(errors[h])] = "handling"
                /\ pc[h] = "done" => ~client_open[h])
    /\ [][\A h \in Conns : (LogFailed(h) /\ pc[h] = "close" /\ pc'[h] # "close")
                              => pc'[h] \in {"done", "killed"}]_vars

\* C21, its case: a tunnel has ended, the append of its row has failed, its
\* handler has ended with the socket closed, the 200 it sent is still what the
\* client got; the listener waits in accept() and another handler is running.
LogFailedOthersRun ==
    \E h, g \in Conns :
        /\ h # g
        /\ LogFailed(h)
        /\ pc[h] = "done"
        /\ req[h].kind = "connect"
        /\ cout[h] = <<Established>>
        /\ InFlight(g)
        /\ lpc = "accept"


\* The handler's request has failed: an error is logged for it, or it was
\* refused as malformed or without target, or it never arrived whole.
Failed(h) == errors[h] # <<>> \/ req[h].kind \in {"bad", "none"}
\* The step is a failure of handler h, or the end of a handler that has failed.
HandlerFails(h) ==
    \/ errors'[h] # errors[h]
    \/ req[h].kind = "none" /\ req'[h].kind = "bad"
    \/ pc[h] = "close" /\ pc'[h] = "done" /\ Failed(h)
\* The step is an accept() that raises.
AcceptRaises == accept_errors' # accept_errors

\* C22: an accept() that raises leaves the listener in its loop and the
\* handlers as they are; a failure of a handler (malformed request, timeout,
\* upstream error, exception) and the end of a failed handler leave the
\* listener and every other handler as they are; the listener leaves its loop
\* only once stop() has been called.
FailuresAreContained ==
    /\ [][AcceptRaises => (lpc' = "loop" /\ shutdown' = shutdown /\ pending' = pending
                             /\ hvars' = hvars)]_vars
    /\ [][\A h \in Conns :
             HandlerFails(h) =>
                (lvars' = lvars /\ \A g \in Conns \ {h} : HandlerState(g)' = HandlerState(g))]_vars
    /\ [](lpc \in {"stopped", "exited"} => shutdown)

\* C22, its case: accept() has raised, one handler has ended after an upstream
\* error and another after a refused request; the listener waits in accept()
\* and a third handler is running.
ListenerOutlivesFailures ==
    \E h, g, k \in Conns :
        /\ accept_errors = MaxAcceptErrors
        /\ pc[h] = "done" /\ UpstreamFailed(h)
        /\ pc[g] = "done" /\ req[g].kind = "bad"
        /\ InFlight(k)
        /\ lpc = "accept"
        /\ ~shutdown


\* The Content-Length header the client sent, if any, and the length it gives.
W_content_length ==
    <<"c", "o", "n", "t", "e", "n", "t", "-", "l", "e", "n", "g", "t", "h">>
SentContentLength(h) == Named(SentLines(h), {W_content_length})
LengthGiven(line) == IF AllDigits(ValueOf(line)) THEN DigitsVal(ValueOf(line)) ELSE 0
\* The body is the first n bytes of what followed the header block, when the
\* client has sent as many.
BodyIsFirst(b, n, after) == ByteLen(after) >= n => (ByteLen(b) = n /\ StartsWith(after, b))
BodyAsDeclared(h, b) ==
    IF SentContentLength(h) = <<>> THEN b = <<>>
    ELSE BodyIsFirst(b, LengthGiven(SentContentLength(h)[1]), SentAfterHead(h))

\* C23: the body handed to the parser, and the body forwarded to the upstream,
\* is empty when the request has no Content-Length header and has Content-Length
\* bytes when it has one and the client has sent as many, whatever else the
\* client sent after the header block, in the same read or in later ones.
BodyHonorsContentLength ==
    \A h \in Conns :
        /\ req[h].kind # "none" => BodyAsDeclared(h, body[h])
        /\ (req[h].kind = "proxy" /\ ~req[h].blocked) => BodyAsDeclared(h, ForwardedBody(h))


\* The step delivers the next chunk of the upstream to the client of handler h.
DeliversChunk(h) ==
    /\ nrecv'[h] = nrecv[h] + 1
    /\ cout'[h] = Append(cout[h], Relayed(UpChunk(nrecv[h] + 1)))
    /\ uin'[h] = uin[h]
\* The step of a tunnel keeps the counter, or adds to it what it delivers.
CounterStep(h) ==
    /\ response_size'[h] >= response_size[h]
    /\ response_size'[h] # response_size[h] =>
          /\ DeliversChunk(h)
          /\ response_size'[h] = response_size[h] + ByteLen(UpChunk(nrecv[h] + 1))
    /\ uin'[h] # uin[h] => response_size'[h] = response_size[h]

\* C24: in a tunnel the counter of the bytes from the upstream never decreases,
\* grows only by the bytes read from the upstream and delivered to the client,
\* is left alone by the bytes of the client, and the response_bytes of the row
\* written at the end of the tunnel is the number of upstream bytes the client
\* has been delivered.
TunnelCounter ==
    /\ [][\A h \in Conns : req[h].kind = "connect" => CounterStep(h)]_vars
    /\ [](\A h \in Conns :
             req[h].kind = "connect" =>
                /\ response_size[h] = ByteLen(RelayedBytes(cout[h]))
                /\ \A i \in Records(h) :
                      store[i].response_bytes = ByteLen(RelayedBytes(cout[h])))

\* C24, its case: a tunnel has carried one byte of the client and three bytes
\* of the upstream, and its row counts three.
TunnelCountedThree ==
    \E h \in Conns :
        /\ req[h].kind = "connect"
        /\ pc[h] = "done"
        /\ Flatten(uin[h]) = <<"y">>
        /\ ByteLen(RelayedBytes(cout[h])) = 3
        /\ \E i \in Records(h) : store[i].response_bytes = 3


\* The process is running: main has not returned.
Running == lpc # "exited"

\* C25: the metrics lock is held by a handler only while it is in the write
\* section of one log call, it is released when that section is left, by a
\* failed write as well; a handler that has ended does not hold it; and, the
\* scheduling being fair, a handler that calls MetricsLogger.log gets through
\* it as long as the process runs.
LockDiscipline ==
    /\ [](Running => \A h \in Conns : lock = h => pc[h] = "log_write")
    /\ [][\A h \in Conns : (pc[h] = "log_write" /\ pc'[h] = "close") => lock' = 0]_vars
    /\ [](\A h \in Conns : pc[h] = "done" => lock # h)
    /\ \A h \in Conns : (pc[h] = "log") ~> (pc[h] \in {"close", "done"} \/ ~Running)

\* C25, its case: the write of one handler has failed, and another handler
\* holds the lock after it.
LockTakenAfterFailure ==
    \E h, g \in Conns :
        /\ h # g
        /\ LogFailed(h)
        /\ lock = g
        /\ pc[g] = "log_write"


\* The step uses the upstream socket of handler h: it opens it, closes it,
\* writes to it or reads from it.
UsesUpstream(h) ==
    \/ upstream'[h] # upstream[h]
    \/ uin'[h] # uin[h]
    \/ nrecv'[h] # nrecv[h]

\* C26: a handler opens at most one upstream socket, its socket is open only
\* while it is in its forward or tunnel step and is closed however that step
\* ends, so that a handler that has ended has no upstream socket open; and
\* the step of a running process that uses the socket of one handler is no
\* step of another handler.
OneUpstreamSocket ==
    /\ [](\A h \in Conns :
             /\ Len(connects[h]) <= 1
             /\ upstream[h] = "open" => pc[h] \in {"p_send", "p_relay", "c_200", "tunnel"}
             /\ pc[h] \in {"done", "killed"} => upstream[h] # "open")
    /\ [][\A h \in Conns :
             (UsesUpstream(h) /\ lpc' # "exited") =>
                \A g \in Conns \ {h} : HandlerState(g)' = HandlerState(g)]_vars

\* C26, its case: a handler has ended after an upstream error, the one socket
\* it opened is closed, and another handler has its own upstream socket open.
UpstreamClosedAfterError ==
    \E h, g \in Conns :
        /\ pc[h] = "done"
        /\ UpstreamFailed(h)
        /\ Len(connects[h]) = 1
        /\ upstream[h] = "closed"
        /\ upstream[g] = "open"

=============================================================================
